---- MODULE Spec2Model ----
(***************************************************************************)
(* Model of the video-analysis core of auto_briefing_ai:                   *)
(*   - GeminiService.analyze_video        (app/services/gemini_service.py) *)
(*   - VideoAnalysisService.analyze_video (video_analysis_service.py)      *)
(*   - the VideoAnalysis pydantic schema  (app/models/...)                 *)
(* A JSON value is a tagged record [t, v]; a string is a sequence of       *)
(* chunks (single characters, or one of the marker words the error         *)
(* classifier looks for); a JSON object is a function from keys to values. *)
(***************************************************************************)
EXTENDS Integers, Sequences, FiniteSets, TLC

\* ------------------------------------------------------------------ bounds
MaxRetriesBound == 3      \* max_retries is drawn from 0..MaxRetriesBound
MaxCaptionLen == 3        \* longest caption string enumerated (chunks)
MaxTextLen == 3           \* longest raw model text enumerated (tokens)
MaxDeviations == 2        \* keys in which a response differs from BaseObject
MaxCalls == 6             \* cap on the remote-call counter of one invocation
MaxLines == 2             \* lines of a links file
MaxRuns == 2              \* runs of the job on one output directory

\* -------------------------------------------------------------- JSON values
Str(s) == [t |-> "str", v |-> s]
Null == [t |-> "null", v |-> <<>>]
Bool(b) == [t |-> "bool", v |-> b]
Num(n) == [t |-> "int", v |-> n]
List(items) == [t |-> "list", v |-> items]
Dict(f) == [t |-> "dict", v |-> f]

EmptyDict == [k \in {} |-> Null]

\* dict helpers: Python's `k in d`, d[k] = x, d.pop(k)
HasKey(d, k) == k \in DOMAIN d
SetKey(d, k, x) == [j \in (DOMAIN d) \cup {k} |-> IF j = k THEN x ELSE d[j]]
DelKey(d, k) == [j \in (DOMAIN d) \ {k} |-> d[j]]

\* ------------------------------------------------------------------ strings
\* The substrings the failure classifier searches a lower-cased message for.
QuotaMarkers == {"quota", "rate limit"}
SizeMarkers == {"too large", "size limit"}
Markers == QuotaMarkers \cup SizeMarkers

\* str.split(): the maximal runs of non-whitespace chunks, in order.
RECURSIVE SplitRec(_, _, _)
SplitRec(s, cur, acc) ==
    IF s = <<>>
    THEN (IF cur = <<>> THEN acc ELSE Append(acc, cur))
    ELSE IF Head(s) = " "
         THEN SplitRec(Tail(s), <<>>, IF cur = <<>> THEN acc ELSE Append(acc, cur))
         ELSE SplitRec(Tail(s), Append(cur, Head(s)), acc)

Split(s) == SplitRec(s, <<>>, <<>>)

\* word.startswith("#")
StartsWithHash(w) == Len(w) > 0 /\ w[1] = "#"

\* [x for x in seq if P(x)]
RECURSIVE FilterHash(_)
FilterHash(ws) ==
    IF ws = <<>> THEN <<>>
    ELSE IF StartsWithHash(Head(ws))
         THEN <<Head(ws)>> \o FilterHash(Tail(ws))
         ELSE FilterHash(Tail(ws))

\* the marker words that occur in a value's text (its repr in a message)
RECURSIVE MarkersIn(_)
MarkersIn(x) ==
    CASE x.t = "str" -> {x.v[i] : i \in DOMAIN x.v} \cap Markers
      [] x.t = "list" -> UNION {MarkersIn(x.v[i]) : i \in DOMAIN x.v}
      [] x.t = "dict" -> UNION {MarkersIn(x.v[k]) : k \in DOMAIN x.v}
      [] OTHER -> {}

\* -------------------------------------------------------- repair constants
required_fields ==
    <<"descripcion_original", "titulo_portada", "idea_video", "gancho_video",
      "acciones", "dialogo", "musica", "expectativas_cumplidas", "caption_video">>

field_mapping ==
    << <<"titulo", "titulo_portada">>,
       <<"gancho_inicial", "gancho_video">>,
       <<"caption", "caption_video">> >>

NoEspecificado ==
    Str(<<"N", "o", " ", "e", "s", "p", "e", "c", "i", "f", "i", "c", "a", "d", "o">>)

DefaultHashtags ==
    List(<< Str(<<"#", "B", "a", "r", "e", "n", "t", "B", "a", "r", "e", "f", "o", "o", "t">>),
            Str(<<"#", "E", "n", "t", "r", "e", "n", "a", "m", "i", "e", "n", "t", "o",
                  "N", "a", "t", "u", "r", "a", "l">>),
            Str(<<"#", "C", "u", "e", "r", "p", "o", "F", "u", "e", "r", "t", "e">>) >>)

\* ------------------------------------------------------------------- repair
\* mutant: the rename overwrites an existing canonical key
ShouldRenameOverwrite(d, old_field, new_field) == HasKey(d, old_field)

\* for old_field, new_field in field_mapping.items():
\*     if old_field in json_response and new_field not in json_response: pop/assign
ShouldRename(d, old_field, new_field) == HasKey(d, old_field) /\ ~HasKey(d, new_field)

\* mutant: the value is copied and the alias key is left in place
RenameKeepOld(d, old_field, new_field) ==
    IF ShouldRename(d, old_field, new_field)
    THEN SetKey(d, new_field, d[old_field])
    ELSE d

RenameOne(d, old_field, new_field) ==
    IF ShouldRename(d, old_field, new_field)
    THEN DelKey(SetKey(d, new_field, d[old_field]), old_field)
    ELSE d

RECURSIVE ApplyMappingFrom(_, _)
ApplyMappingFrom(d, i) ==
    IF i > Len(field_mapping) THEN d
    ELSE ApplyMappingFrom(RenameOne(d, field_mapping[i][1], field_mapping[i][2]), i + 1)

ApplyMapping(d) == ApplyMappingFrom(d, 1)

\* missing_fields = [field for field in required_fields if field not in json_response]
\* mutant: hashtags is swept as a required field
MissingFieldsAndHashtags(d) ==
    SelectSeq(required_fields \o <<"hashtags">>, LAMBDA f : ~HasKey(d, f))

MissingFields(d) == SelectSeq(required_fields, LAMBDA f : ~HasKey(d, f))

\* mutant: the placeholder has the shape the schema asks of the field
FillValueShaped(field) ==
    CASE field = "acciones" -> List(<<>>)
      [] field = "dialogo" -> Dict([hay_dialogo |-> Bool(FALSE)])
      [] field = "musica" -> Dict([hay_musica |-> Bool(FALSE)])
      [] OTHER -> NoEspecificado

\* mutant: the placeholder is the empty string
FillValueEmpty(field) == Str(<<>>)

FillValue(field) == IF field = "hashtags" THEN DefaultHashtags ELSE NoEspecificado

RECURSIVE FillFrom(_, _, _)
FillFrom(d, missing, i) ==
    IF i > Len(missing) THEN d
    ELSE FillFrom(SetKey(d, missing[i], FillValue(missing[i])), missing, i + 1)

FillMissing(d) == FillFrom(d, MissingFields(d), 1)

\* [word for word in caption.split() if word.startswith("#")], as a JSON list
CaptionHashtags(caption) ==
    LET ws == FilterHash(Split(caption.v))
    IN  List([i \in DOMAIN ws |-> Str(ws[i])])

\* caption.split() exists only on str: anything else raises AttributeError
SplitRaises(d) ==
    /\ ~HasKey(d, "hashtags")
    /\ HasKey(d, "caption_video")
    /\ d["caption_video"].t # "str"

\* mutant: an empty or null hashtags value counts as no hashtags
InferWhenFalsy(d) ==
    IF HasKey(d, "hashtags") /\ d["hashtags"].t # "null"
          /\ ~(d["hashtags"].t \in {"list", "str"} /\ d["hashtags"].v = <<>>)
    THEN d
    ELSE IF HasKey(d, "caption_video") /\ d["caption_video"].t = "str"
               /\ CaptionHashtags(d["caption_video"]).v # <<>>
         THEN SetKey(d, "hashtags", CaptionHashtags(d["caption_video"]))
         ELSE SetKey(d, "hashtags", DefaultHashtags)

\* mutant: hashtags are inferred from the caption even when the key is present
InferAlways(d) ==
    IF HasKey(d, "caption_video") /\ d["caption_video"].t = "str"
          /\ CaptionHashtags(d["caption_video"]).v # <<>>
    THEN SetKey(d, "hashtags", CaptionHashtags(d["caption_video"]))
    ELSE SetKey(d, "hashtags", DefaultHashtags)

InferHashtags(d) ==
    IF HasKey(d, "hashtags") THEN d
    ELSE IF HasKey(d, "caption_video")
         THEN LET hashtags == CaptionHashtags(d["caption_video"])
              IN  IF hashtags.v # <<>>
                  THEN SetKey(d, "hashtags", hashtags)
                  ELSE SetKey(d, "hashtags", DefaultHashtags)
         ELSE SetKey(d, "hashtags", DefaultHashtags)

\* lines 199-238: the object handed to VideoAnalysis(**json_response); the
\* result is meaningful only when RepairRaises is false
Swept(d) == FillMissing(ApplyMapping(d))
RepairRaises(d) == SplitRaises(Swept(d))
Repair(d) == InferHashtags(Swept(d))

\* --------------------------------------------------- schema (VideoAnalysis)
\* pydantic, lax mode: str takes a str only; bool also takes the integers 0, 1
\* (the string spellings of a boolean are not among the values enumerated
\* here); Optional[...] takes null; a Tuple[str, str] takes a 2-element list.
IsStr(x) == x.t = "str"
IsListOfStr(x) == x.t = "list" /\ \A i \in DOMAIN x.v : IsStr(x.v[i])
BoolOk(x) == x.t = "bool" \/ (x.t = "int" /\ x.v \in {0, 1})
CoerceBool(x) == IF x.t = "int" THEN Bool(x.v = 1) ELSE x

\* mutant: a dialogue entry of any length is taken
DialogEntryAnyArity(e) == e.t = "list" /\ \A i \in DOMAIN e.v : IsStr(e.v[i])

\* Tuple[str, str]
TupleArity == 2
DialogEntryOk(e) ==
    e.t = "list" /\ Len(e.v) = TupleArity /\ \A i \in DOMAIN e.v : IsStr(e.v[i])

\* Optional[List[Tuple[str, str]]]
DialogLinesOk(x) ==
    x.t = "null" \/ (x.t = "list" /\ \A i \in DOMAIN x.v : DialogEntryOk(x.v[i]))

DialogInfoOk(x) ==
    /\ x.t = "dict"
    /\ HasKey(x.v, "hay_dialogo") /\ BoolOk(x.v["hay_dialogo"])
    /\ HasKey(x.v, "dialogo") => DialogLinesOk(x.v["dialogo"])

MusicRecommendationOk(x) ==
    /\ x.t = "dict"
    /\ HasKey(x.v, "nombre_cancion") /\ IsStr(x.v["nombre_cancion"])
    /\ HasKey(x.v, "artista") /\ IsStr(x.v["artista"])

MusicInfoOk(x) ==
    /\ x.t = "dict"
    /\ HasKey(x.v, "hay_musica") /\ BoolOk(x.v["hay_musica"])
    /\ HasKey(x.v, "recomendacion") =>
          (x.v["recomendacion"].t = "null" \/ MusicRecommendationOk(x.v["recomendacion"]))

StrFields ==
    {"descripcion_original", "titulo_portada", "idea_video", "gancho_video",
     "expectativas_cumplidas", "caption_video"}

\* mutant: every field of the schema has a default
SchemaRequiredNone == {}

SchemaRequired == StrFields \cup {"acciones", "dialogo", "musica"}

\* is value x acceptable for the declared field k
FieldOk(k, x) ==
    CASE k \in StrFields -> IsStr(x)
      [] k = "acciones" -> IsListOfStr(x)
      [] k = "dialogo" -> DialogInfoOk(x)
      [] k = "musica" -> MusicInfoOk(x)
      [] k = "hashtags" -> x.t = "null" \/ IsListOfStr(x)
      [] OTHER -> TRUE      \* extra='allow'

\* the top-level fields pydantic reports an error for
SchemaErrors(d) ==
    {k \in SchemaRequired : ~HasKey(d, k)}
        \cup {k \in DOMAIN d : ~FieldOk(k, d[k])}

Validates(d) == SchemaErrors(d) = {}

\* mutant: the validation message quotes nothing of its input
ValidationMarkersNone(d) == {}

\* the marker words in str(ValidationError): each error quotes its input value
\* (the whole input for a missing top-level field)
ValidationMarkers(d) ==
    UNION {MarkersIn(d[k]) : k \in SchemaErrors(d) \cap DOMAIN d}
        \cup (IF \E k \in SchemaRequired : ~HasKey(d, k) THEN MarkersIn(Dict(d)) ELSE {})

WithDefault(f, k, x) == IF HasKey(f, k) THEN f ELSE SetKey(f, k, x)

CoerceDialog(x) ==
    Dict(WithDefault([k \in DOMAIN x.v |->
                         IF k = "hay_dialogo" THEN CoerceBool(x.v[k]) ELSE x.v[k]],
                     "dialogo", Null))

CoerceMusic(x) ==
    Dict(WithDefault([k \in DOMAIN x.v |->
                         IF k = "hay_musica" THEN CoerceBool(x.v[k]) ELSE x.v[k]],
                     "recomendacion", Null))

\* mutant: undeclared keys are dropped (extra='ignore')
ValidatedFieldsIgnoreExtra(d) ==
    LET full == WithDefault(d, "hashtags", List(<<>>))
    IN  [k \in DOMAIN full \cap (SchemaRequired \cup {"hashtags"}) |->
            CASE k = "dialogo" -> CoerceDialog(full[k])
              [] k = "musica" -> CoerceMusic(full[k])
              [] OTHER -> full[k]]

\* the fields of the VideoAnalysis instance built from a dict that validates
ValidatedFields(d) ==
    LET full == WithDefault(d, "hashtags", List(<<>>))
    IN  [k \in DOMAIN full |->
            CASE k = "dialogo" -> CoerceDialog(full[k])
              [] k = "musica" -> CoerceMusic(full[k])
              [] OTHER -> full[k]]

\* ------------------------------------------------- inputs: parsed objects
\* strings over the caption alphabet, up to MaxCaptionLen chunks
CaptionChars == {"a", "#", " "}
Captions == UNION {[1..n -> CaptionChars] : n \in 0..MaxCaptionLen}

ValidDialog == Dict([hay_dialogo |-> Bool(TRUE),
                     dialogo |-> List(<<List(<<Str(<<"s">>), Str(<<"t">>)>>)>>)])
ValidMusic == Dict([hay_musica |-> Bool(TRUE),
                    recomendacion |-> Dict([nombre_cancion |-> Str(<<"n">>),
                                            artista |-> Str(<<"r">>)])])

\* a response of the shape the prompt asks for
BaseObject ==
    [descripcion_original |-> Str(<<"d">>),
     titulo_portada |-> Str(<<"p">>),
     idea_video |-> Str(<<"i">>),
     gancho_video |-> Str(<<"g">>),
     acciones |-> List(<<Str(<<"a">>), Str(<<"quota">>)>>),
     dialogo |-> ValidDialog,
     musica |-> ValidMusic,
     expectativas_cumplidas |-> Str(<<"e">>),
     caption_video |-> Str(<<"c", " ", "#", "h">>),
     hashtags |-> List(<<Str(<<"#", "v">>)>>)]

Absent == [t |-> "absent", v |-> <<>>]

\* The ways a response deviates from BaseObject, by the field concerned: each
\* alternative sets some keys (Absent removes the key).
Slots == DOMAIN BaseObject \cup {"nota"}

Alternatives(slot) ==
    CASE slot = "caption_video" ->
            {"caption_video" :> x : x \in {Absent, Null, Num(7)}}
                \cup {"caption_video" :> Str(c) : c \in Captions}
                \cup {("caption_video" :> Absent) @@ ("caption" :> x) :
                          x \in {Str(<<"#", "C", " ", "w">>), Null}}
                \cup {"caption" :> Str(<<"w">>)}
      [] slot = "titulo_portada" ->
            {"titulo_portada" :> Absent,
             ("titulo_portada" :> Absent) @@ ("titulo" :> Str(<<"T">>)),
             "titulo" :> Str(<<"T">>)}
      [] slot = "gancho_video" ->
            {"gancho_video" :> Null,
             ("gancho_video" :> Absent) @@ ("gancho_inicial" :> Str(<<"G">>)),
             "gancho_inicial" :> Null}
      [] slot = "descripcion_original" ->
            {"descripcion_original" :> x : x \in {Absent, Str(<<"rate limit">>)}}
      [] slot = "acciones" ->
            {"acciones" :> x : x \in {Absent, Str(<<"quota">>), List(<<Num(1)>>)}}
      [] slot = "dialogo" ->
            {"dialogo" :> x : x \in
                {Absent,
                 Dict([hay_dialogo |-> Num(1), tono |-> Str(<<"x">>)]),
                 Dict([hay_dialogo |-> Bool(TRUE),
                       dialogo |-> List(<<List(<<Str(<<"s">>), Str(<<"t">>),
                                                 Str(<<"quota">>)>>)>>)]),
                 Dict([hay_dialogo |-> Bool(TRUE),
                       dialogo |-> List(<<List(<<Str(<<"s">>)>>)>>)]),
                 Dict([dialogo |-> Null])}}
      [] slot = "musica" ->
            {"musica" :> x : x \in
                {Absent,
                 Dict([hay_musica |-> Bool(FALSE), genero |-> Str(<<"x">>)]),
                 Dict([hay_musica |-> Bool(TRUE),
                       recomendacion |-> Dict([nombre_cancion |-> Str(<<"too large">>)])])}}
      [] slot = "hashtags" ->
            {"hashtags" :> x : x \in {Absent, Null, List(<<>>), Str(<<"#", "a">>)}}
      [] slot = "nota" -> {"nota" :> Str(<<"x">>)}
      [] OTHER -> {slot :> Absent}

\* BaseObject with the keys of f set as f says
Deviate(f) ==
    LET keys == {k \in DOMAIN BaseObject : k \notin DOMAIN f \/ f[k].t # "absent"}
                    \cup {k \in DOMAIN f : f[k].t # "absent"}
    IN  [k \in keys |-> IF k \in DOMAIN f THEN f[k] ELSE BaseObject[k]]

RECURSIVE Choices(_)
\* every choice of one alternative for each slot of D, merged
Choices(D) ==
    IF D = {} THEN {EmptyDict}
    ELSE LET slot == CHOOSE x \in D : TRUE
         IN  {f @@ a : f \in Choices(D \ {slot}), a \in Alternatives(slot)}

SlotSets(n) == {D \in SUBSET Slots : Cardinality(D) <= n}

ObjectsWithin(n) == UNION {{Deviate(f) : f \in Choices(D)} : D \in SlotSets(n)}

\* --------------------------------------------------- inputs: raw model text
\* response.text as a sequence of tokens: "x" is prose, "{" and "}" are the
\* braces, "o" is the member list of a JSON object (its own braces balanced)
TextTokens == {"x", "{", "o", "}"}
Texts == UNION {[1..n -> TextTokens] : n \in 0..MaxTextLen}

\* str.find / str.rfind, 0-based, -1 when the character does not occur
Find(text, c) ==
    IF \E i \in DOMAIN text : text[i] = c
    THEN (CHOOSE i \in DOMAIN text :
              text[i] = c /\ \A j \in DOMAIN text : text[j] = c => i <= j) - 1
    ELSE -1

RFind(text, c) ==
    IF \E i \in DOMAIN text : text[i] = c
    THEN (CHOOSE i \in DOMAIN text :
              text[i] = c /\ \A j \in DOMAIN text : text[j] = c => j <= i) - 1
    ELSE -1

\* mutant: a "{" alone counts as a span, wherever the last "}" is
JsonFoundAnyBrace(text) == Find(text, "{") >= 0

\* if start_idx >= 0 and end_idx > start_idx
JsonFound(text) == Find(text, "{") >= 0 /\ RFind(text, "}") > Find(text, "{")

\* cleaned_response[start_idx:end_idx+1]
JsonStr(text) == SubSeq(text, Find(text, "{") + 1, RFind(text, "}") + 1)

\* mutant: json.loads never raises
JsonParsesAll(json_str) == TRUE

\* json.loads accepts exactly one object: "{" [members] "}"
JsonParses(json_str) == json_str \in {<<"{", "o", "}">>, <<"{", "}">>}

\* one JSON object, alone or with prose before or after it
\* or with a stray brace in that prose
WrappedTexts ==
    {<<"{", "o", "}">>, <<"x", "{", "o", "}">>, <<"{", "o", "}", "x">>,
     <<"}", "{", "o", "}">>, <<"{", "o", "}", "}">>, <<"{", "{", "o", "}">>}

\* the remote model's answer: its text, and the members "o" stands for
Response(text, obj) == [text |-> text, obj |-> obj]
CarriesObject(text) == JsonFound(text) /\ JsonStr(text) = <<"{", "o", "}">>

\* json.loads(json_str) for a text that parses
JsonLoads(r) == IF CarriesObject(r.text) THEN r.obj ELSE EmptyDict

\* the messages str(e) of a remote-call error, as the marker words they contain
\* (none, each one alone, and a quota marker together with a size marker)
ErrorMessages == {{}} \cup {{m} : m \in Markers} \cup {{"quota", "too large"}}

\* --------------------------------------------------------- retry arithmetic
BackoffBase == 5
\* def analyze_video(self, video_path, max_retries: int = 3)
DefaultMaxRetries == 3

RECURSIVE Pow2(_)
Pow2(n) == IF n = 0 THEN 1 ELSE 2 * Pow2(n - 1)

\* mutant: linear instead of exponential backoff
WaitTimeLinear(retry) == (retry + 1) * BackoffBase

\* wait_time = (2 ** retry_count) * 5
WaitTime(retry) == Pow2(retry) * BackoffBase

\* mutant: a size error is retried like a quota error
IsQuotaOrSize(msg) == msg \cap Markers # {}

\* mutant: a size marker takes precedence over a quota marker
IsQuotaUnlessSize(msg) == msg \cap QuotaMarkers # {} /\ msg \cap SizeMarkers = {}

\* "quota" in error_str or "rate limit" in error_str
IsQuota(msg) == msg \cap QuotaMarkers # {}
\* "too large" in error_str or "size limit" in error_str
IsTooLarge(msg) == msg \cap SizeMarkers # {}

\* if retry_count < max_retries
AttemptsRemain(retry, maxr) == retry < maxr
\* mutant: the attempt index is not advanced
NextRetryStuck(retry) == retry

\* retry_count += 1
NextRetry(retry) == retry + 1
\* while retry_count <= max_retries
LoopContinues(retry, maxr) == retry <= maxr

\* -------------------------------------------------------------------- state
VARIABLES
    service,        \* "gemini" (GeminiService) or "langchain" (VideoAnalysisService)
    pc,             \* "idle", "loop", "calling", "returned", "raised"
    max_retries,    \* the max_retries argument of the invocation
    retry_count,    \* the loop's attempt index
    video_base64,   \* "data" or "None": the local the finally clause clears
    calls,          \* remote calls issued by this invocation
    sleeps,         \* the durations passed to time.sleep, in order
    reads,          \* times the video file was opened and read
    transcodes,     \* times ffmpeg was run on the video
    video_exists,   \* os.path.exists(video_path) at the time of the invocation
    outcomes,       \* what the remote did on each call: raised msg, or returned text
    error_str,      \* the message the except handler last classified
    json_response,  \* the parsed object as the repair stage last left it
    response,       \* the last text the remote model returned
    result,         \* what analyze_video gave its caller
    cause,          \* the failure that ended (or last interrupted) the invocation
    config          \* the instance's model name, prompt template and credential

\* the state of the controller (ContentController.process_links_file)
VARIABLES
    lines,          \* the lines of the links file, as read
    links,          \* the links kept from them (line 127)
    loop_i,         \* enumerate's counter i in the loop over links
    ctl,            \* "idle", "link", "analyzing", "saving", "done", "aborted"
    link,           \* process_link's locals video_success, audio_success, frames_success
    results,        \* the results list
    written,        \* the analysis files written so far, in order: index and path
    files,          \* the entries of the run's date directory
    events          \* the steps of process_link taken so far: <<index, step>>

\* the output directory across runs of the job (ExcelService works on all of it)
VARIABLES
    output_dir,     \* date directory name -> the paths below it
    run,            \* the number of the current run: its date_str
    xl_log          \* what generate_excel_from_directory did to each directory

excel_vars == <<output_dir, run, xl_log>>

ctrl == <<lines, links, loop_i, ctl, link, results, written, files, events, excel_vars>>

analysis_vars ==
    <<service, pc, max_retries, retry_count, video_base64, calls, sleeps,
      reads, transcodes, video_exists, outcomes, error_str, json_response,
      response, result, cause, config>>

vars == <<analysis_vars, ctrl>>

\* entries of outcomes
Raised(msg) == [kind |-> "raise", msg |-> msg]
Returned == [kind |-> "text", msg |-> {}]

Services == {"gemini", "langchain"}

Pending == [t |-> "pending", v |-> EmptyDict]
NoneResult == [t |-> "None", v |-> EmptyDict]
FileNotFound == [t |-> "FileNotFoundError", v |-> EmptyDict]
Analysis(fields) == [t |-> "VideoAnalysis", v |-> fields]

NoResponse == Response(<<>>, EmptyDict)

FailureKind(msg) ==
    IF IsQuota(msg) THEN "QuotaExhausted"
    ELSE IF IsTooLarge(msg) THEN "PayloadTooLarge" ELSE "Unrecoverable"

NoLink == [video_success |-> FALSE, audio_success |-> FALSE, frames_success |-> FALSE]

\* the controller before process_links_file is called
CtrlInit ==
    /\ lines = <<>>
    /\ links = <<>>
    /\ loop_i = 0
    /\ ctl = "idle"
    /\ link = NoLink
    /\ results = <<>>
    /\ written = <<>>
    /\ files = {}
    /\ events = <<>>
    /\ output_dir = <<>>
    /\ run = 1
    /\ xl_log = {}

\* self.model_name = model or LLM_MODEL, self.prompt_template, the API key
ModelNames == {"LLM_MODEL", "model"}
Configured(model_name) ==
    [model_name |-> model_name,
     prompt_template |-> "VIDEO_ANALYSIS_PROMPT",
     credential |-> "GEMINI_API_KEY"]

Init ==
    /\ CtrlInit
    /\ service \in Services
    /\ \E model_name \in ModelNames : config = Configured(model_name)
    /\ pc = "idle"
    /\ max_retries = 0
    /\ retry_count = 0
    /\ video_base64 = "None"
    /\ calls = 0
    /\ sleeps = <<>>
    /\ reads = 0
    /\ transcodes = 0
    /\ video_exists = TRUE
    /\ outcomes = <<>>
    /\ error_str = {}
    /\ json_response = EmptyDict
    /\ response = NoResponse
    /\ result = Pending
    /\ cause = "none"

\* return None / return VideoAnalysis(...) with the finally clause
Return(value, why) ==
    /\ pc' = "returned"
    /\ result' = value
    /\ cause' = why
    /\ video_base64' = "None"
    /\ UNCHANGED <<retry_count, sleeps>>

\* ffmpeg runs only on an existing file larger than 15 MB
Transcoded(exists, big) == IF exists /\ big THEN 1 ELSE 0
\* mutant: the file is opened before the existence check
FileReadsAlways(exists) == 1

\* the file is opened only after the existence check
FileReads(exists) == IF exists THEN 1 ELSE 0

\* mutant: the attempt counter lives on across invocations
InvokeKeepsCount(exists, big, maxr) ==
    /\ pc \in {"idle", "returned", "raised"}
    /\ max_retries' = maxr
    /\ retry_count' = retry_count
    /\ calls' = 0
    /\ sleeps' = <<>>
    /\ video_exists' = exists
    /\ outcomes' = <<>>
    /\ error_str' = {}
    /\ json_response' = EmptyDict
    /\ response' = NoResponse
    /\ cause' = IF exists THEN "none" ELSE "FileMissing"
    /\ result' = IF exists THEN Pending ELSE FileNotFound
    /\ pc' = IF exists THEN "loop" ELSE "raised"
    /\ transcodes' = Transcoded(exists, big)
    /\ reads' = FileReads(exists)
    /\ video_base64' = IF exists THEN "data" ELSE "None"
    /\ UNCHANGED <<service, config>>

\* analyze_video up to the retry loop: existence check, size check with the
\* ffmpeg reduction, read and base64-encode
Invoke(exists, big, maxr) ==
    /\ pc \in {"idle", "returned", "raised"}
    /\ max_retries' = maxr
    /\ retry_count' = 0
    /\ calls' = 0
    /\ sleeps' = <<>>
    /\ video_exists' = exists
    /\ outcomes' = <<>>
    /\ error_str' = {}
    /\ json_response' = EmptyDict
    /\ response' = NoResponse
    /\ cause' = IF exists THEN "none" ELSE "FileMissing"
    /\ result' = IF exists THEN Pending ELSE FileNotFound
    /\ pc' = IF exists THEN "loop" ELSE "raised"
    /\ transcodes' = Transcoded(exists, big)
    /\ reads' = FileReads(exists)
    /\ video_base64' = IF exists THEN "data" ELSE "None"
    /\ UNCHANGED <<service, config>>

\* mutant: the payload survives the iteration that ends in a retry
HandleErrorKeepsPayload(msg, origin) ==
    /\ error_str' = msg
    /\ IF IsQuota(msg) /\ AttemptsRemain(retry_count, max_retries)
       THEN /\ sleeps' = Append(sleeps, WaitTime(retry_count))
            /\ retry_count' = NextRetry(retry_count)
            /\ video_base64' = video_base64
            /\ cause' = "none"
            /\ IF LoopContinues(NextRetry(retry_count), max_retries)
               THEN pc' = "loop" /\ result' = Pending
               ELSE pc' = "returned" /\ result' = NoneResult
       ELSE Return(NoneResult, origin)

\* the except-Exception handler around the remote call (classify, back off)
HandleError(msg, origin) ==
    /\ error_str' = msg
    /\ IF IsQuota(msg) /\ AttemptsRemain(retry_count, max_retries)
       THEN /\ sleeps' = Append(sleeps, WaitTime(retry_count))
            /\ retry_count' = NextRetry(retry_count)
            /\ video_base64' = "None"
            /\ cause' = "none"
            /\ IF LoopContinues(NextRetry(retry_count), max_retries)
               THEN pc' = "loop" /\ result' = Pending
               ELSE pc' = "returned" /\ result' = NoneResult
       ELSE Return(NoneResult, origin)

\* ------------------------------------------------ GeminiService.analyze_video
\* base64.b64decode(video_base64) on a cleared payload raises: outer except
GeminiPrepareFails ==
    /\ service = "gemini" /\ pc = "loop"
    /\ video_base64 = "None"
    /\ Return(NoneResult, "PrepareError")
    /\ UNCHANGED <<ctrl, config, service, max_retries, calls, reads, transcodes, video_exists,
                   outcomes, error_str, json_response, response>>

\* model.generate_content(parts, generation_config=...) is issued
GeminiCall ==
    /\ service = "gemini" /\ pc = "loop"
    /\ video_base64 = "data"
    /\ calls < MaxCalls
    /\ calls' = calls + 1
    /\ pc' = "calling"
    /\ UNCHANGED <<ctrl, config, service, max_retries, retry_count, video_base64, sleeps, reads,
                   transcodes, video_exists, outcomes, error_str, json_response,
                   response, result, cause>>

\* the call (or reading response.text) raises an error whose message is msg
GeminiRaises(msg) ==
    /\ service = "gemini" /\ pc = "calling"
    /\ outcomes' = Append(outcomes, Raised(msg))
    /\ HandleError(msg, FailureKind(msg))
    /\ UNCHANGED <<ctrl, config, service, max_retries, calls, reads, transcodes, video_exists,
                   json_response, response>>

\* what lines 186-250 do with the text of a response
GeminiProcess(r) ==
    IF ~JsonFound(r.text)
    THEN Return(NoneResult, "NoJsonFound") /\ UNCHANGED <<error_str, json_response>>
    ELSE IF ~JsonParses(JsonStr(r.text))
    THEN Return(NoneResult, "JsonParseError") /\ UNCHANGED <<error_str, json_response>>
    ELSE LET parsed == JsonLoads(r)
         IN  IF RepairRaises(parsed)
             THEN /\ json_response' = Swept(parsed)
                  /\ HandleError({}, "RepairError")
             ELSE /\ json_response' = Repair(parsed)
                  /\ IF Validates(Repair(parsed))
                     THEN /\ Return(Analysis(ValidatedFields(Repair(parsed))), "none")
                          /\ UNCHANGED error_str
                     ELSE HandleError(ValidationMarkers(Repair(parsed)),
                                      "SchemaViolation")

\* the call returns a response r
GeminiReturns(r) ==
    /\ service = "gemini" /\ pc = "calling"
    /\ outcomes' = Append(outcomes, Returned)
    /\ response' = r
    /\ GeminiProcess(r)
    /\ UNCHANGED <<ctrl, config, service, max_retries, calls, reads, transcodes, video_exists>>

\* ----------------------------------------- VideoAnalysisService.analyze_video
\* the texts response.content can hold, as the chunks the classifier can see
Contents == {<<c>> : c \in Markers \cup {"x"}} \cup {<<"quota", "too large">>}

\* building the message raises (prompt_template.format()): outer except
LangchainPrepareFails ==
    /\ service = "langchain" /\ pc = "loop"
    /\ Return(NoneResult, "PrepareError")
    /\ UNCHANGED <<ctrl, config, service, max_retries, calls, reads, transcodes, video_exists,
                   outcomes, error_str, json_response, response>>

\* self.llm.invoke([message]) is issued
LangchainCall ==
    /\ service = "langchain" /\ pc = "loop"
    /\ calls < MaxCalls
    /\ calls' = calls + 1
    /\ pc' = "calling"
    /\ UNCHANGED <<ctrl, config, service, max_retries, retry_count, video_base64, sleeps, reads,
                   transcodes, video_exists, outcomes, error_str, json_response,
                   response, result, cause>>

LangchainRaises(msg) ==
    /\ service = "langchain" /\ pc = "calling"
    /\ outcomes' = Append(outcomes, Raised(msg))
    /\ HandleError(msg, FailureKind(msg))
    /\ UNCHANGED <<ctrl, config, service, max_retries, calls, reads, transcodes, video_exists,
                   json_response, response>>

\* return VideoAnalysis(result=response.content)
LangchainReturns(content) ==
    LET kwargs == [result |-> Str(content)]
    IN  /\ service = "langchain" /\ pc = "calling"
        /\ outcomes' = Append(outcomes, Returned)
        /\ response' = Response(<<>>, kwargs)
        /\ IF Validates(kwargs)
           THEN Return(Analysis(ValidatedFields(kwargs)), "none") /\ UNCHANGED error_str
           ELSE HandleError(ValidationMarkers(kwargs), "SchemaViolation")
        /\ UNCHANGED <<ctrl, config, service, max_retries, calls, reads, transcodes, video_exists,
                       json_response>>

\* ------------------------------------------------------------ specification
\* the responses the remote model gives in Spec: any text, with an object that
\* differs from BaseObject in at most one key
Responses ==
    {Response(text, EmptyDict) : text \in {x \in Texts : ~CarriesObject(x)}}
        \cup {Response(text, obj) : text \in {x \in Texts : CarriesObject(x)},
                                    obj \in ObjectsWithin(1)}

Next ==
    \/ \E exists \in BOOLEAN, big \in BOOLEAN, maxr \in 0..MaxRetriesBound :
           Invoke(exists, big, maxr) /\ UNCHANGED ctrl
    \/ GeminiPrepareFails
    \/ GeminiCall
    \/ \E msg \in ErrorMessages : GeminiRaises(msg)
    \/ \E r \in Responses : GeminiReturns(r)
    \/ LangchainPrepareFails
    \/ LangchainCall
    \/ \E msg \in ErrorMessages : LangchainRaises(msg)
    \/ \E content \in Contents : LangchainReturns(content)

Spec == Init /\ [][Next]_vars

\* the steps inside an invocation: the program always takes its next step,
\* and a remote call that was issued returns or raises
AnalysisStep ==
    \/ GeminiPrepareFails
    \/ GeminiCall
    \/ \E msg \in ErrorMessages : GeminiRaises(msg)
    \/ \E r \in Responses : GeminiReturns(r)
    \/ LangchainPrepareFails
    \/ LangchainCall
    \/ \E msg \in ErrorMessages : LangchainRaises(msg)
    \/ \E content \in Contents : LangchainReturns(content)

\* an instance made with the default model name
InitFair == Init /\ config = Configured("LLM_MODEL")

SpecFair == InitFair /\ [][Next]_vars /\ WF_vars(AnalysisStep)

\* The repair and validation stage on its own: a response to the first call of
\* a default invocation, its object differing from BaseObject in up to
\* MaxDeviations keys, and the one step that processes it.
InitRepair ==
    /\ CtrlInit
    /\ service = "gemini"
    /\ config = Configured("LLM_MODEL")
    /\ pc = "calling"
    /\ max_retries = DefaultMaxRetries
    /\ retry_count = 0
    /\ video_base64 = "data"
    /\ calls = 1
    /\ sleeps = <<>>
    /\ reads = 1
    /\ transcodes = 0
    /\ video_exists = TRUE
    /\ outcomes = <<>>
    /\ error_str = {}
    /\ json_response = EmptyDict
    /\ \E text \in WrappedTexts, D \in SlotSets(MaxDeviations) :
          \E f \in Choices(D) : response = Response(text, Deviate(f))
    /\ result = Pending
    /\ cause = "none"

NextRepair == GeminiReturns(response)

SpecRepair == InitRepair /\ [][NextRepair]_vars

\* --------------------------------------------------------- ContentController
\* a line of the links file is a sequence of chunks: " " is whitespace (the
\* newline included), "#" the comment sign, anything else part of a URL
LineValues == {<<" ">>, <<" ", "#", "u", " ">>, <<"u", " ">>, <<" ", "v", " ">>}
LinkFiles == UNION {[1..n -> LineValues] : n \in 0..MaxLines}

\* str.strip()
RECURSIVE StripLeft(_)
StripLeft(s) == IF s # <<>> /\ Head(s) = " " THEN StripLeft(Tail(s)) ELSE s
RECURSIVE StripRight(_)
StripRight(s) ==
    IF s # <<>> /\ s[Len(s)] = " " THEN StripRight(SubSeq(s, 1, Len(s) - 1)) ELSE s
Strip(s) == StripRight(StripLeft(s))

\* mutant: comment lines are kept as links
IsLinkAnyText(line) == Strip(line) # <<>>

\* if line.strip() and not line.strip().startswith('#')
IsLink(line) == Strip(line) # <<>> /\ Head(Strip(line)) # "#"

\* links = [line.strip() for line in file if ...]
ReadLinks(ls) ==
    LET kept == SelectSeq(ls, IsLink)
    IN  [k \in DOMAIN kept |-> Strip(kept[k])]

\* mutant: the loop counter itself is the index
LinkIndexZeroBased(k) == k

\* self.process_link(url, output_dir_with_date, i+1)
LinkIndex(k) == k + 1

\* mutant: one analysis file for the whole run
AnalysisPathShared(index) == <<"archivo", 0, "archivo", 0, "analysis.json">>

\* A date directory is the set of the paths below it: a path of length 1 is a
\* file of the directory, one of length 2 the sub-directory archivo_{index},
\* a longer one a file of that sub-directory.
\* content_dir = archivo_{index}, made by download_video before it downloads
ContentDir(index) == <<"archivo", index>>
VideoPath(index) == <<"archivo", index, "archivo", index, "video.mp4">>

\* content_dir/archivo_{index}_analysis.json
AnalysisPath(index) == <<"archivo", index, "archivo", index, "analysis.json">>
ResultsFile == <<"processing_results.json">>
ExcelFile == <<"analisis.xlsx">>

\* the dict process_link returns
LinkResult(url, locals, analysis) ==
    [url |-> url,
     video_success |-> locals.video_success,
     audio_success |-> locals.audio_success,
     frames_success |-> locals.frames_success,
     analysis |-> analysis]

\* `if analysis:` a VideoAnalysis instance is truthy, None is not
Truthy(value) == value.t = "VideoAnalysis"

\* the answers of the remote model in a batch: the well-formed one, prose
\* without an object, an object cut short, and an object lacking acciones
BatchResponses ==
    {Response(<<"{", "o", "}">>, BaseObject),
     Response(<<"x">>, EmptyDict),
     Response(<<"{", "{", "o", "}">>, BaseObject),
     Response(<<"{", "o", "}">>, Deviate("acciones" :> Absent))}

\* process_links_file up to the loop: existence check, read and filter
ProcessLinksFile(file_exists, ls) ==
    /\ ctl = "idle"
    /\ lines' = IF file_exists THEN ls ELSE <<>>
    /\ links' = IF file_exists THEN ReadLinks(ls) ELSE <<>>
    /\ results' = <<>>
    /\ loop_i' = 0
    /\ ctl' = IF ~file_exists THEN "done"
              ELSE IF ReadLinks(ls) = <<>> THEN "saving" ELSE "link"
    /\ UNCHANGED <<link, written, files, events, excel_vars, analysis_vars>>

\* results.append(result) and the loop's step to the next link
AppendResult(locals, analysis) ==
    /\ results' = Append(results, LinkResult(links[loop_i + 1], locals, analysis))
    /\ loop_i' = loop_i + 1
    /\ ctl' = IF loop_i + 1 < Len(links) THEN "link" ELSE "saving"

\* process_link up to the call of analyze_video (download, audio, frames), and
\* the call's own preamble; all of process_link when the download failed
BeginLink(video_success, audio_success, frames_ok, exists, big) ==
    LET index == LinkIndex(loop_i)
        locals == [video_success |-> video_success,
                   audio_success |-> audio_success,
                   frames_success |-> video_success /\ frames_ok]
    IN  /\ ctl = "link"
        /\ link' = locals
        /\ files' = files \cup {ContentDir(index)}
                          \cup (IF video_success /\ exists THEN {VideoPath(index)} ELSE {})
        /\ UNCHANGED <<lines, links, written, excel_vars>>
        /\ IF video_success
           THEN /\ Invoke(exists, big, DefaultMaxRetries)
                /\ events' = events \o <<<<index, "download">>, <<index, "analysis">>>>
                /\ ctl' = "analyzing"
                /\ UNCHANGED <<results, loop_i>>
           ELSE /\ events' = events \o <<<<index, "download">>, <<index, "result">>>>
                /\ AppendResult(locals, NoneResult)
                /\ UNCHANGED analysis_vars

\* analyze_video returned: write the analysis file if there is an analysis,
\* return the dict, append it
EndLink ==
    LET index == LinkIndex(loop_i)
    IN  /\ ctl = "analyzing" /\ pc = "returned"
        /\ IF Truthy(result)
           THEN /\ written' = Append(written, [index |-> index, path |-> AnalysisPath(index)])
                /\ files' = files \cup {AnalysisPath(index)}
                /\ events' = events \o <<<<index, "write">>, <<index, "result">>>>
           ELSE /\ UNCHANGED <<written, files>>
                /\ events' = Append(events, <<index, "result">>)
        /\ AppendResult(link, result)
        /\ UNCHANGED <<lines, links, link, excel_vars, analysis_vars>>

\* analyze_video raised: neither process_link nor process_links_file catches
LinkRaises ==
    /\ ctl = "analyzing" /\ pc = "raised"
    /\ ctl' = "aborted"
    /\ UNCHANGED <<lines, links, loop_i, link, results, written, files, events,
                   excel_vars, analysis_vars>>

\* ------------------------------------------------------------- ExcelService
\* os.listdir(date_path): the directory's own entries, and the entry a path is in
Items(dir) == {p \in dir : Len(p) <= 2}
ItemOf(p) == IF Len(p) <= 2 THEN p ELSE SubSeq(p, 1, 2)

\* file_dirs: the sub-directories of a date directory
FileDirs(dir) == {p \in dir : Len(p) = 2}

\* analysis_files of a sub-directory is not empty
HasAnalysis(dir, file_dir) ==
    \E p \in dir : Len(p) > 2 /\ ItemOf(p) = file_dir /\ p[Len(p)] = "analysis.json"

\* excel_data: a row for each sub-directory with an analysis file (the files
\* are model_dump_json output, which json.load reads); the row carries the
\* link's URL when the results file is there, and "Video #index" otherwise
ExcelData(dir) ==
    {[index |-> file_dir[2], url |-> ResultsFile \in dir] :
         file_dir \in {d \in FileDirs(dir) : HasAnalysis(dir, d)}}

\* what the operating system does during one directory's processing: to_excel
\* succeeds or raises, os.listdir of the cleanup succeeds or raises, and the
\* entries whose removal raises (an rmtree that raises leaves the sub-directory)
AllItems == {ResultsFile} \cup {ContentDir(k) : k \in 1..MaxLines}
OsOutcomes ==
    {[ok |-> FALSE, listed |-> TRUE, fails |-> {}],
     [ok |-> TRUE, listed |-> FALSE, fails |-> {}]}
        \cup {[ok |-> TRUE, listed |-> TRUE, fails |-> F] : F \in SUBSET AllItems}

\* _cleanup_directory(date_path, excel_file)
CleanupDirectory(dir, oc) ==
    IF ~oc.listed THEN dir
    ELSE {p \in dir : ItemOf(p) = ExcelFile \/ ItemOf(p) \in oc.fails}

\* the Excel file is written: the body of the loop over date_dirs that follows
\* `if excel_data`
WritesExcel(dir, oc) == FileDirs(dir) # {} /\ ExcelData(dir) # {} /\ oc.ok

\* one turn of the loop over date_dirs
GenerateDir(dir, oc) ==
    IF WritesExcel(dir, oc) THEN CleanupDirectory(dir \cup {ExcelFile}, oc) ELSE dir

\* generate_excel_from_directory(output_dir)
GenerateExcel(tree, ocs) == [d \in DOMAIN tree |-> GenerateDir(tree[d], ocs[d])]

\* the record of one call: for every date directory, the run that called, the
\* directory before and after, and the rows written to its Excel file if any
ExcelLog(tree, ocs, r) ==
    {[run |-> r, date |-> d, before |-> tree[d], after |-> GenerateDir(tree[d], ocs[d]),
      wrote |-> WritesExcel(tree[d], ocs[d]),
      rows |-> IF WritesExcel(tree[d], ocs[d]) THEN ExcelData(tree[d]) ELSE {}] :
         d \in DOMAIN tree}

\* the output directory with the current run's date directory in it
WithDate(tree, d, dir) == [k \in DOMAIN tree \cup {d} |-> IF k = d THEN dir ELSE tree[k]]

\* after the loop: the results file (its write fails when the date directory
\* was never made or the dump raises), the summary, and
\* generate_excel_from_directory over every date directory of output_dir
FinishBatch(saved, ocs) ==
    LET tree == IF files = {} THEN output_dir
                ELSE WithDate(output_dir, run,
                              files \cup (IF saved THEN {ResultsFile} ELSE {}))
    IN  /\ ctl = "saving"
        /\ DOMAIN ocs = DOMAIN tree
        /\ output_dir' = GenerateExcel(tree, ocs)
        /\ files' = IF files = {} THEN files ELSE GenerateDir(tree[run], ocs[run])
        /\ xl_log' = xl_log \cup ExcelLog(tree, ocs, run)
        /\ ctl' = "done"
        /\ UNCHANGED <<lines, links, loop_i, link, results, written, events, run,
                       analysis_vars>>

\* self.video_analysis_service = GeminiService()
InitBatch == Init /\ service = "gemini" /\ config = Configured("LLM_MODEL")

NextBatch ==
    \/ \E file_exists \in BOOLEAN, ls \in LinkFiles : ProcessLinksFile(file_exists, ls)
    \/ \E video_success \in BOOLEAN, audio_success \in BOOLEAN, frames_ok \in BOOLEAN,
          exists \in BOOLEAN, big \in BOOLEAN :
           BeginLink(video_success, audio_success, frames_ok, exists, big)
    \/ GeminiPrepareFails
    \/ GeminiCall
    \/ \E msg \in ErrorMessages : GeminiRaises(msg)
    \/ \E r \in BatchResponses : GeminiReturns(r)
    \/ EndLink
    \/ LinkRaises
    \/ \E saved \in BOOLEAN :
          \E ocs \in [DOMAIN output_dir \cup (IF files = {} THEN {} ELSE {run}) -> OsOutcomes] :
             FinishBatch(saved, ocs)

SpecBatch == InitBatch /\ [][NextBatch]_vars

\* ------------------------------------------------------- the job, run again
\* The job's main() is started once per run; each run has its own date_str.
\* Here the loop over the links is taken as one step that leaves the date
\* directory as a run of SpecBatch can leave it: for every link its
\* sub-directory, with the video if it was downloaded and the analysis file if
\* analyze_video returned an analysis.
LinkDirs(k) ==
    {{ContentDir(k)},
     {ContentDir(k), VideoPath(k)},
     {ContentDir(k), VideoPath(k), AnalysisPath(k)}}

RECURSIVE ContentsOf(_)
ContentsOf(n) ==
    IF n = 0 THEN {{}}
    ELSE {c \cup l : c \in ContentsOf(n - 1), l \in LinkDirs(n)}

\* the date directory when the loop has ended, and when analyze_video raised
\* FileNotFoundError for link n (its video is not there)
RunContents == UNION {ContentsOf(n) : n \in 0..MaxLines}
AbortContents == UNION {{c \cup {ContentDir(n)} : c \in ContentsOf(n - 1)} : n \in 1..MaxLines}

\* process_links_file up to the end of its loop
RunReachesSave(content) ==
    /\ ctl = "idle" /\ run <= MaxRuns
    /\ files' = content
    /\ ctl' = "saving"
    /\ UNCHANGED <<lines, links, loop_i, link, results, written, events, excel_vars,
                   analysis_vars>>

\* process_links_file left by the exception: no results file, no Excel step
RunAborts(content) ==
    /\ ctl = "idle" /\ run <= MaxRuns
    /\ files' = content
    /\ output_dir' = WithDate(output_dir, run, content)
    /\ ctl' = "aborted"
    /\ UNCHANGED <<lines, links, loop_i, link, results, written, events, run, xl_log,
                   analysis_vars>>

\* main() is started again: a new controller, a later date_str
NextRun ==
    /\ ctl \in {"done", "aborted"} /\ run < MaxRuns
    /\ run' = run + 1
    /\ files' = {}
    /\ ctl' = "idle"
    /\ UNCHANGED <<lines, links, loop_i, link, results, written, events, output_dir,
                   xl_log, analysis_vars>>

NextExcel ==
    \/ \E content \in RunContents : RunReachesSave(content)
    \/ \E content \in AbortContents : RunAborts(content)
    \/ \E saved \in BOOLEAN :
          \E ocs \in [DOMAIN output_dir \cup (IF files = {} THEN {} ELSE {run}) -> OsOutcomes] :
             FinishBatch(saved, ocs)
    \/ NextRun

SpecExcel == InitBatch /\ [][NextExcel]_vars



\* ------------------------------------------------------------------ claims
\* classification of a message as the claims state it
QuotaMsg(m) == "quota" \in m \/ "rate limit" \in m
AllQuotaRaises(o) == \A i \in DOMAIN o : o[i].kind = "raise" /\ QuotaMsg(o[i].msg)
LastOutcome(o) == o[Len(o)]

\* the well-formed answer the prompt asks for
GoodResponse == Response(<<"{", "o", "}">>, BaseObject)

\* C1: if the remote call of GeminiService.analyze_video fails with a quota
\* error on attempts 0..k-1 and succeeds on attempt k (k <= max_retries), the
\* client sleeps 5*2^i after failed attempt i, issues exactly k+1 calls and
\* returns the analysis. Remote outcomes are drawn when a call is issued, so
\* the claim has two halves: the client does not give up while only quota
\* failures have occurred and attempt k is still within max_retries, and when
\* attempt k answers well the calls, sleeps and result are as stated.
C1_RetryUntilSuccess ==
    (service = "gemini" /\ pc = "returned") =>
        /\ AllQuotaRaises(outcomes) => Len(outcomes) > max_retries
        /\ \A k \in 0..max_retries :
              (/\ Len(outcomes) = k + 1
               /\ AllQuotaRaises(SubSeq(outcomes, 1, k))
               /\ outcomes[k + 1].kind = "text"
               /\ response = GoodResponse)
              => /\ result.t = "VideoAnalysis"
                 /\ calls = k + 1
                 /\ sleeps = [i \in 1..k |-> 5 * 2^(i - 1)]

\* C2: in one invocation attempts are indexed from 0 and the number of remote
\* calls issued never exceeds max_retries + 1.
C2_AttemptBound ==
    /\ calls <= max_retries + 1
    /\ retry_count >= 0
    /\ pc = "calling" => retry_count = calls - 1

C2_Witness ==
    service = "langchain" /\ pc = "returned" /\ max_retries >= 2
        /\ calls = max_retries + 1

\* C3: a backoff sleep happens only after a failure classified as quota or
\* rate limit with attempts remaining, lasts exactly 5 * 2^attemptIndex
\* seconds, and is followed by the attempt index growing by exactly 1.
C3_BackoffSleep ==
    [][sleeps' # sleeps =>
          \/ sleeps' = <<>>
          \/ /\ pc = "calling"
             /\ QuotaMsg(error_str')
             /\ retry_count < max_retries
             /\ sleeps' = Append(sleeps, 5 * 2^retry_count)
             /\ retry_count' = retry_count + 1]_vars

C3_Witness == sleeps = <<5, 10, 20>> /\ retry_count = 3 /\ pc = "loop"

\* C4: when every remote call fails with a quota error, GeminiService's
\* analyze_video returns its failure only after max_retries + 1 remote calls
\* and max_retries sleeps.
C4_SurfacedAfterExhaustion ==
    (service = "gemini" /\ pc = "returned" /\ outcomes # <<>>
        /\ AllQuotaRaises(outcomes))
    => (calls = max_retries + 1 /\ Len(sleeps) = max_retries /\ result = NoneResult)

\* C5: a remote error that is not classified as quota or rate limit aborts the
\* invocation at once: no sleep, no further remote call, a failure returned;
\* a payload-too-large error on the first attempt gives one attempt in all.
C5_AbortOnNonQuota ==
    /\ [](pc = "returned" /\ Len(outcomes) = 1 /\ outcomes[1].kind = "raise"
              /\ ~QuotaMsg(outcomes[1].msg)
          => calls = 1 /\ sleeps = <<>> /\ result = NoneResult)
    /\ [][(/\ pc = "calling"
           /\ Len(outcomes') = Len(outcomes) + 1
           /\ LastOutcome(outcomes').kind = "raise"
           /\ ~QuotaMsg(LastOutcome(outcomes').msg))
          => (/\ pc' = "returned"
              /\ result' = NoneResult
              /\ sleeps' = sleeps
              /\ calls' = calls)]_vars
    /\ [][pc = "returned" => pc' # "calling" /\ (calls' = calls \/ calls' = 0)]_vars

C5_Witness ==
    service = "gemini" /\ pc = "returned" /\ max_retries >= 1 /\ calls = 1
        /\ outcomes = <<Raised({"too large"})>>

\* C6: every failure of analyze_video reaches the caller as a typed failure
\* whose kind is one of the seven of the taxonomy, so the returned value alone
\* tells which cause occurred.
FailureKinds ==
    {"QuotaExhausted", "PayloadTooLarge", "Unrecoverable", "NoJsonFound",
     "JsonParseError", "SchemaViolation", "FileMissing"}

KindCarried(r) == IF r.t = "FileNotFoundError" THEN "FileMissing" ELSE r.t

C6_TypedFailure ==
    (service = "gemini" /\ pc \in {"returned", "raised"} /\ result.t # "VideoAnalysis")
    => (cause \in FailureKinds /\ KindCarried(result) = cause)

\* C7: when the video path does not exist the call fails with
\* FileNotFoundError before any remote call, sleep, file read or transcoding.
C7_FileMissingFailsFast ==
    (pc # "idle" /\ ~video_exists)
    => /\ pc = "raised" /\ result = FileNotFound /\ cause = "FileMissing"
       /\ calls = 0 /\ sleeps = <<>> /\ reads = 0 /\ transcodes = 0

C7_Witness == pc = "raised" /\ ~video_exists /\ result = FileNotFound

\* the places where text holds a whole object "{" "o" "}"
ObjectAt(text) ==
    {i \in DOMAIN text : i + 2 <= Len(text) /\ SubSeq(text, i, i + 2) = <<"{", "o", "}">>}
ContainsOneObject(text) == Cardinality(ObjectAt(text)) = 1
\* no "{" before the object and no "}" after it
NoStrayBrace(text) ==
    \A i \in ObjectAt(text) :
        /\ \A j \in DOMAIN text : j < i => text[j] # "{"
        /\ \A j \in DOMAIN text : j > i + 2 => text[j] # "}"

\* C8: for raw text holding exactly one well-formed JSON object with all
\* required fields validly shaped, repair followed by validation returns a
\* result whose fields equal the parsed object's (as validation reads them).
C8_RoundTrip ==
    (pc # "calling" /\ ContainsOneObject(response.text) /\ Validates(response.obj))
    => (result.t = "VideoAnalysis" /\ result.v = ValidatedFields(response.obj))

\* C8 as amended: the same, for an object that also carries a hashtags key and
\* a text with no "{" before the object and no "}" after it.
C8_RoundTripAmended ==
    (/\ pc # "calling"
     /\ ContainsOneObject(response.text) /\ NoStrayBrace(response.text)
     /\ Validates(response.obj) /\ "hashtags" \in DOMAIN response.obj)
    => (result.t = "VideoAnalysis" /\ result.v = ValidatedFields(response.obj))

C8_Witness ==
    /\ pc = "returned" /\ response.text = <<"x", "{", "o", "}">>
    /\ "titulo" \in DOMAIN response.obj /\ "nota" \in DOMAIN response.obj
    /\ "hashtags" \in DOMAIN response.obj
    /\ result.t = "VideoAnalysis"

AliasPairs ==
    {<<"titulo", "titulo_portada">>, <<"gancho_inicial", "gancho_video">>,
     <<"caption", "caption_video">>}

\* the response was parsed, and repair has run on the parsed object
Repaired == pc # "calling" /\ CarriesObject(response.text)

\* C9: for a parsed object using an alias name instead of the canonical name,
\* repair leaves the canonical field holding the alias's value and no alias key.
C9_AliasRenamed ==
    Repaired =>
        \A p \in AliasPairs :
            (p[1] \in DOMAIN response.obj /\ p[2] \notin DOMAIN response.obj)
            => /\ p[2] \in DOMAIN json_response
               /\ json_response[p[2]] = response.obj[p[1]]
               /\ p[1] \notin DOMAIN json_response

C9_Witness ==
    /\ Repaired
    /\ {"titulo", "gancho_inicial"} \subseteq DOMAIN response.obj
    /\ DOMAIN response.obj \cap {"titulo_portada", "gancho_video"} = {}
    /\ json_response["titulo_portada"] = Str(<<"T">>)
    /\ json_response["gancho_video"] = Str(<<"G">>)

\* C10: aliasing never overwrites: a canonical key present before repair keeps
\* its value (and the alias, if also present, stays); a rename happens only
\* when the alias is present and the canonical key absent.
C10_NoOverwrite ==
    Repaired =>
        \A p \in AliasPairs :
            /\ p[2] \in DOMAIN response.obj =>
                  /\ p[2] \in DOMAIN json_response
                  /\ json_response[p[2]] = response.obj[p[2]]
                  /\ p[1] \in DOMAIN response.obj =>
                        /\ p[1] \in DOMAIN json_response
                        /\ json_response[p[1]] = response.obj[p[1]]
            /\ (p[1] \in DOMAIN response.obj /\ p[1] \notin DOMAIN json_response)
                  => p[2] \notin DOMAIN response.obj

C10_Witness ==
    /\ Repaired
    /\ {"titulo", "titulo_portada", "caption", "caption_video"} \subseteq DOMAIN response.obj
    /\ json_response["titulo"] = Str(<<"T">>)
    /\ json_response["titulo_portada"] = Str(<<"p">>)

\* the tokens of a string, stated by position: a token starts at a non-blank
\* chunk that is first or follows a blank, and runs up to the next blank
TokenStarts(s) == {i \in DOMAIN s : s[i] # " " /\ (i = 1 \/ s[i - 1] = " ")}
TokenEnd(s, i) ==
    CHOOSE j \in i..Len(s) :
        /\ \A k \in i..j : s[k] # " "
        /\ (j = Len(s) \/ s[j + 1] = " ")

RECURSIVE Ascending(_)
Ascending(S) ==
    IF S = {} THEN <<>>
    ELSE LET m == CHOOSE x \in S : \A y \in S : x <= y
         IN  <<m>> \o Ascending(S \ {m})

\* the tokens of s that begin with "#", in their order of occurrence
HashTokens(s) ==
    LET st == Ascending({i \in TokenStarts(s) : s[i] = "#"})
    IN  [k \in DOMAIN st |-> Str(SubSeq(s, st[k], TokenEnd(s, st[k])))]

\* the caption field of a parsed object, under its canonical name or its alias
CaptionField(obj) ==
    IF "caption_video" \in DOMAIN obj THEN obj["caption_video"]
    ELSE IF "caption" \in DOMAIN obj THEN obj["caption"]
    ELSE Absent

\* a caption that is not a string has no tokens
CaptionTokens(obj) ==
    IF CaptionField(obj).t = "str" THEN HashTokens(CaptionField(obj).v) ELSE <<>>

\* C11: when the parsed object has no hashtags key, repair sets hashtags to
\* the caption's whitespace-delimited tokens that begin with "#", in order, if
\* there is one, and otherwise to the fixed 3-item default list.
C11_HashtagsInferred ==
    (Repaired /\ "hashtags" \notin DOMAIN response.obj)
    => /\ "hashtags" \in DOMAIN json_response
       /\ json_response["hashtags"] =
              IF CaptionTokens(response.obj) # <<>>
              THEN List(CaptionTokens(response.obj))
              ELSE DefaultHashtags

\* C11 for the captions on which caption.split() is defined (a string, or no
\* caption at all, which the sweep replaces by the placeholder string)
C11_StringCaption ==
    (Repaired /\ "hashtags" \notin DOMAIN response.obj
        /\ CaptionField(response.obj).t \in {"str", "absent"})
    => /\ "hashtags" \in DOMAIN json_response
       /\ json_response["hashtags"] =
              IF CaptionTokens(response.obj) # <<>>
              THEN List(CaptionTokens(response.obj))
              ELSE DefaultHashtags

C11_TwoTokens ==
    /\ Repaired /\ "hashtags" \notin DOMAIN response.obj
    /\ response.obj["caption_video"] = Str(<<"#", " ", "#">>)
    /\ json_response["hashtags"] = List(<<Str(<<"#">>), Str(<<"#">>)>>)

\* braces balanced: scanning left to right the depth never goes below zero
\* and ends at zero ("o" stands for members whose own braces are balanced)
RECURSIVE DepthOk(_, _)
DepthOk(text, depth) ==
    IF text = <<>> THEN depth = 0
    ELSE IF Head(text) = "{" THEN DepthOk(Tail(text), depth + 1)
    ELSE IF Head(text) = "}" THEN depth > 0 /\ DepthOk(Tail(text), depth - 1)
    ELSE DepthOk(Tail(text), depth)
Balanced(text) == DepthOk(text, 0)

HasOpenBrace(text) == \E i \in DOMAIN text : text[i] = "{"
\* some "}" lies after some "{"
BracketedSpan(text) ==
    \E i, j \in DOMAIN text : i < j /\ text[i] = "{" /\ text[j] = "}"

\* the remote model answered with text and analyze_video has returned
TextHandled ==
    /\ service = "gemini" /\ pc = "returned"
    /\ outcomes # <<>> /\ LastOutcome(outcomes) = Returned

FirstOpen(text) ==
    CHOOSE i \in DOMAIN text :
        text[i] = "{" /\ \A j \in DOMAIN text : text[j] = "{" => i <= j
LastClose(text) ==
    CHOOSE i \in DOMAIN text :
        text[i] = "}" /\ \A j \in DOMAIN text : text[j] = "}" => j <= i
SpanOf(text) == SubSeq(text, FirstOpen(text), LastClose(text))
\* a JSON object is "{", optional members, "}"
IsJsonObject(span) == span = <<"{", "}">> \/ span = <<"{", "o", "}">>
Unparseable(text) ==
    /\ HasOpenBrace(text) /\ \E i \in DOMAIN text : text[i] = "}"
    /\ FirstOpen(text) < LastClose(text)
    /\ ~IsJsonObject(SpanOf(text))

\* C13: when the substring from the first "{" to the last "}" of the raw text
\* is not parseable as JSON, analyze_video fails with JsonParseError at once:
\* the step that receives the text returns None, the error handler does not
\* classify anything, nothing is slept and no further call is issued, even
\* when attempts remain.
C13_ParseErrorImmediate ==
    [][(/\ service = "gemini" /\ pc = "calling"
        /\ outcomes' = Append(outcomes, Returned)
        /\ Unparseable(response'.text))
       => (/\ pc' = "returned" /\ cause' = "JsonParseError" /\ result' = NoneResult
           /\ error_str' = error_str /\ sleeps' = sleeps
           /\ retry_count' = retry_count /\ calls' = calls)]_vars

C13_Witness ==
    /\ TextHandled /\ response.text = <<"{", "{", "}">>
    /\ max_retries >= 1 /\ retry_count = 0
    /\ cause = "JsonParseError" /\ result = NoneResult
    /\ calls = 1 /\ sleeps = <<>>

\* the required fields of the schema
RequiredNames ==
    {"descripcion_original", "titulo_portada", "idea_video", "gancho_video",
     "acciones", "dialogo", "musica", "expectativas_cumplidas", "caption_video"}

\* a value that is not null and, when it is a string, list or object, has
\* something in it
NonEmpty(x) ==
    /\ x.t # "null"
    /\ x.t \in {"str", "list", "dict"} => DOMAIN x.v # {}

\* the field is in the parsed object under neither its name nor its alias
AbsentAfterAliasing(obj, f) ==
    /\ f \notin DOMAIN obj
    /\ \A p \in AliasPairs : p[2] = f => p[1] \notin DOMAIN obj

\* C14: after repair of any parsed object every required field of the schema
\* is present and has a non-empty value.
C14_PresentNonEmpty ==
    Repaired =>
        \A f \in RequiredNames :
            f \in DOMAIN json_response /\ NonEmpty(json_response[f])

\* C14 as amended: after repair every required field is present; a field
\* absent after aliasing holds the placeholder, and a field the parsed object
\* had keeps the value it had, empty or null included.
C14_PresentAmended ==
    Repaired =>
        \A f \in RequiredNames :
            /\ f \in DOMAIN json_response
            /\ AbsentAfterAliasing(response.obj, f)
                  => json_response[f] = NoEspecificado
            /\ f \in DOMAIN response.obj => json_response[f] = response.obj[f]

C14_Witness ==
    /\ Repaired
    /\ AbsentAfterAliasing(response.obj, "acciones")
    /\ json_response["acciones"] = NoEspecificado
    /\ response.obj["caption_video"] = Str(<<>>)
    /\ json_response["caption_video"] = Str(<<>>)

\* C15: for every syntactically valid JSON object, whatever the types of its
\* values, the repair stage completes without raising and hands an object to
\* validation: once the object is parsed, the invocation either returns the
\* validated result or fails in validation, and the object validation received
\* carries a hashtags key.
C15_RepairNeverRaises ==
    Repaired =>
        /\ cause \in {"none", "SchemaViolation"}
        /\ "hashtags" \in DOMAIN json_response

\* the dialogue list of an object, when it has one
HasDialogLines(obj) ==
    /\ "dialogo" \in DOMAIN obj /\ obj["dialogo"].t = "dict"
    /\ "dialogo" \in DOMAIN obj["dialogo"].v
    /\ obj["dialogo"].v["dialogo"].t = "list"
DialogLines(obj) == obj["dialogo"].v["dialogo"].v
\* some entry of the dialogue list is a list of other than 2 elements
HasOddEntry(obj) ==
    /\ HasDialogLines(obj)
    /\ \E i \in DOMAIN DialogLines(obj) :
           DialogLines(obj)[i].t = "list" /\ Len(DialogLines(obj)[i].v) # 2

\* repair ran to its end: the object was handed to VideoAnalysis(**json_response)
RepairCompleted == Repaired /\ "hashtags" \in DOMAIN json_response

\* C16: validation accepts a dialogue entry only if it has exactly 2 elements:
\* a repaired object whose dialogue list has an entry of another arity is
\* rejected by validation (the invocation stops with SchemaViolation, or its
\* handler takes the validation message for a quota error and backs off) and
\* no analysis result is returned; a returned result has 2-element entries only.
C16_PairArity ==
    /\ (RepairCompleted /\ HasOddEntry(json_response))
          => /\ result.t # "VideoAnalysis"
             /\ \/ cause = "SchemaViolation"
                \/ (cause = "none" /\ pc = "loop" /\ QuotaMsg(error_str))
    /\ (RepairCompleted /\ result.t = "VideoAnalysis" /\ HasDialogLines(result.v))
          => \A i \in DOMAIN DialogLines(result.v) :
                 Len(DialogLines(result.v)[i].v) = 2

C16_Witness ==
    /\ RepairCompleted /\ HasOddEntry(json_response)
    /\ Len(DialogLines(json_response)[1].v) = 1
    /\ \A k \in DOMAIN BaseObject :
           k # "dialogo" => (k \in DOMAIN response.obj /\ response.obj[k] = BaseObject[k])
    /\ result = NoneResult /\ cause = "SchemaViolation"

\* the keys the schema declares, at top level and in the two sub-records
DeclaredTop == RequiredNames \cup {"hashtags"}
DeclaredIn(sub) ==
    IF sub = "dialogo" THEN {"hay_dialogo", "dialogo"} ELSE {"hay_musica", "recomendacion"}
SubRecords == {"dialogo", "musica"}

Restrict(f, keys) == [k \in DOMAIN f \cap keys |-> f[k]]
\* an object without its unknown keys
KnownPart(obj) ==
    [k \in DOMAIN obj \cap DeclaredTop |->
        IF k \in SubRecords /\ obj[k].t = "dict"
        THEN Dict(Restrict(obj[k].v, DeclaredIn(k)))
        ELSE obj[k]]

UnknownTop(obj) == DOMAIN obj \ DeclaredTop
UnknownIn(obj, sub) ==
    IF sub \in DOMAIN obj /\ obj[sub].t = "dict"
    THEN DOMAIN obj[sub].v \ DeclaredIn(sub) ELSE {}

\* C17: a repaired object that satisfies the schema and also carries unknown
\* keys, at top level or inside dialogue/music, validates, and every unknown
\* key is in the returned analysis result with its original value.
C17_ExtrasPreserved ==
    (RepairCompleted /\ Validates(KnownPart(json_response)))
    => /\ result.t = "VideoAnalysis"
       /\ \A k \in UnknownTop(json_response) :
              k \in DOMAIN result.v /\ result.v[k] = json_response[k]
       /\ \A sub \in SubRecords : \A k \in UnknownIn(json_response, sub) :
              /\ k \in DOMAIN result.v[sub].v
              /\ result.v[sub].v[k] = json_response[sub].v[k]

C17_Witness ==
    /\ RepairCompleted /\ result.t = "VideoAnalysis"
    /\ "nota" \in UnknownTop(json_response) /\ result.v["nota"] = Str(<<"x">>)
    /\ "tono" \in UnknownIn(json_response, "dialogo")
    /\ result.v["dialogo"].v["tono"] = Str(<<"x">>)

C17_WitnessMusic ==
    /\ RepairCompleted /\ result.t = "VideoAnalysis"
    /\ "genero" \in UnknownIn(json_response, "musica")
    /\ result.v["musica"].v["genero"] = Str(<<"x">>)
    /\ "titulo" \in UnknownTop(json_response)

\* the analysis of the link in progress has failed: analyze_video returned
\* None (every failure kind but FileMissing) or raised (FileMissing)
AnalysisFailed ==
    /\ ctl = "analyzing"
    /\ (pc = "returned" /\ result = NoneResult) \/ pc = "raised"

\* C18: in the batch loop, whenever the analysis of a link fails with any
\* failure kind (FileMissing included) the failure is recorded and the loop goes
\* on to the next link: a failed analysis never leaves the batch aborted, a
\* link whose analysis failed has its entry in the results list once the loop
\* has moved on, and a finished batch has one result per link of the file.
C18_BatchContinues ==
    /\ ctl # "aborted"
    /\ ctl \in {"saving", "done"} => Len(results) = Len(links)
    /\ ctl \in {"link", "analyzing"} => Len(results) = loop_i

\* the same for the failures that make analyze_video return None
C18_NoneFailureContinues ==
    [][(AnalysisFailed /\ pc = "returned") =>
          /\ results' = Append(results, LinkResult(links[loop_i + 1], link, NoneResult))
          /\ ctl' \in {"link", "saving"}]_vars

C18_NoneFailureWitness ==
    /\ ctl = "done" /\ Len(links) = 2 /\ Len(results) = 2
    /\ results[1].video_success /\ results[1].analysis = NoneResult
    /\ results[2].analysis.t = "VideoAnalysis"

\* the links of a file, stated on the lines: a line counts when it has a chunk
\* other than whitespace and the first such chunk is not "#"
HasText(line) == \E p \in DOMAIN line : line[p] # " "
FirstText(line) ==
    line[CHOOSE p \in DOMAIN line :
             line[p] # " " /\ \A q \in DOMAIN line : line[q] # " " => p <= q]
LinkPositions(ls) == Ascending({p \in DOMAIN ls : HasText(ls[p]) /\ FirstText(ls[p]) # "#"})
UrlOf(line) == SelectSeq(line, LAMBDA c : c # " ")

StepRank(step) ==
    CASE step = "download" -> 1 [] step = "analysis" -> 2
      [] step = "write" -> 3 [] step = "result" -> 4

\* C19: links are handled strictly one at a time in file order: the i-th
\* non-blank line not starting with "#" (whitespace around it set aside) is
\* processed with index i, counted from 1; every step of link i + 1 comes after
\* the last step of link i; and the results list is in the same order.
C19_Sequential ==
    /\ Len(links) = Len(LinkPositions(lines))
    /\ \A k \in DOMAIN links : links[k] = UrlOf(lines[LinkPositions(lines)[k]])
    /\ events # <<>> => events[1] = <<1, "download">>
    /\ \A k \in DOMAIN events : k > 1 =>
           \/ /\ events[k][1] = events[k - 1][1]
              /\ StepRank(events[k][2]) > StepRank(events[k - 1][2])
           \/ /\ events[k][1] = events[k - 1][1] + 1
              /\ events[k - 1][2] = "result" /\ events[k][2] = "download"
    /\ Len(results) = Cardinality({k \in DOMAIN events : events[k][2] = "result"})
    /\ Len(results) <= Len(links)
    /\ \A k \in DOMAIN results : results[k].url = UrlOf(lines[LinkPositions(lines)[k]])
    /\ \A k \in DOMAIN events : events[k][1] \in DOMAIN links

C19_Witness ==
    /\ ctl = "done"
    /\ lines = << <<" ", "v", " ">>, <<"u", " ">> >>
    /\ results[1].url = <<"v">> /\ results[2].url = <<"u">>
    /\ events[Len(events)] = <<2, "result">>
    /\ \E k \in DOMAIN events : events[k] = <<1, "write">>

C19_WitnessComment ==
    /\ ctl = "done"
    /\ lines = << <<" ", "#", "u", " ">>, <<" ", "v", " ">> >>
    /\ Len(results) = 1 /\ results[1].url = <<"v">>
    /\ events[Len(events)] = <<1, "result">>

\* archivo_<i>/archivo_<i>_analysis.json
AnalysisFileOf(k) == <<"archivo", k, "archivo", k, "analysis.json">>

\* C20: an analysis file archivo_<i>_analysis.json is written only after
\* analyze_video returned a validated result for link i; a link whose analysis
\* failed gets no analysis file; at most one analysis file is written per link,
\* each to a path no other link's file has.
C20_AnalysisFileAfterValidation ==
    /\ [][written' # written =>
             /\ ctl = "analyzing" /\ pc = "returned"
             /\ result.t = "VideoAnalysis" /\ cause = "none"
             /\ Validates(json_response) /\ result.v = ValidatedFields(json_response)
             /\ written' = Append(written, [index |-> loop_i + 1,
                                            path |-> AnalysisFileOf(loop_i + 1)])]_vars
    /\ [](\A k \in DOMAIN written :
              /\ written[k].index \in DOMAIN results
              /\ results[written[k].index].analysis.t = "VideoAnalysis"
              /\ written[k].path = AnalysisFileOf(written[k].index))
    /\ [](\A k \in DOMAIN results :
              results[k].analysis.t # "VideoAnalysis"
              => \A j \in DOMAIN written :
                     written[j].index # k /\ written[j].path # AnalysisFileOf(k))
    /\ [](\A j, k \in DOMAIN written :
              j # k => (written[j].index # written[k].index
                           /\ written[j].path # written[k].path))

C20_Witness ==
    /\ Len(results) = 2 /\ Len(written) = 2
    /\ written[1].path # written[2].path
    /\ results[1].url = results[2].url

C20_WitnessFailed ==
    /\ Len(results) = 2 /\ Len(written) = 1
    /\ results[1].video_success /\ results[1].analysis = NoneResult
    /\ written[1] = [index |-> 2, path |-> AnalysisFileOf(2)]

\* the state in which an invocation enters its retry loop (or has raised for a
\* missing file), as a function of the invocation's own inputs only: whether
\* the video exists, whether it was transcoded, and max_retries
FreshStart ==
    /\ retry_count = 0 /\ calls = 0 /\ sleeps = <<>> /\ outcomes = <<>>
    /\ error_str = {} /\ json_response = EmptyDict /\ response = NoResponse
    /\ reads = (IF video_exists THEN 1 ELSE 0)
    /\ transcodes \in {0, 1} /\ (~video_exists => transcodes = 0)
    /\ video_base64 = (IF video_exists THEN "data" ELSE "None")
    /\ pc = (IF video_exists THEN "loop" ELSE "raised")
    /\ result = (IF video_exists THEN Pending ELSE FileNotFound)
    /\ cause = (IF video_exists THEN "none" ELSE "FileMissing")

\* C21: analyze_video leaves the configured state (model name, prompt
\* template, credential) unchanged, and nothing of an earlier invocation on the
\* same instance reaches a later one: every invocation, whatever ran before it,
\* starts in the state a first invocation with the same inputs starts in, so
\* its outcome is decided by its video and its remote responses alone.
C21_NoCrossInvocationState ==
    [][/\ config' = config
       /\ service' = service
       /\ (pc \in {"idle", "returned", "raised"} /\ analysis_vars' # analysis_vars)
             => FreshStart']_vars

\* a second analysis on the instance succeeds after the first one, on a
\* downloaded video, returned no analysis
C21_Witness ==
    /\ ctl = "analyzing" /\ Len(results) = 1
    /\ results[1].video_success /\ results[1].analysis = NoneResult
    /\ pc = "returned" /\ result.t = "VideoAnalysis"
    /\ sleeps = <<>> /\ calls = 1 /\ retry_count = 0
    /\ config = Configured("LLM_MODEL")

InLoop == pc \in {"loop", "calling"}
Ended == pc \in {"returned", "raised"}

\* C22: every invocation of analyze_video terminates, for every max_retries
\* and every sequence of remote outcomes: an invocation inside its retry loop
\* reaches a return; an iteration that continues (from the call back to the
\* head of the loop) has increased the attempt counter, which never exceeds
\* max_retries; and after a return the loop is entered again only by a new
\* invocation, from its beginning.
C22_Terminates ==
    /\ InLoop ~> Ended
    /\ [][(pc = "calling" /\ pc' = "loop") => retry_count' > retry_count]_vars
    /\ [](retry_count <= max_retries)
    /\ [][(Ended /\ InLoop') =>
             (retry_count' = 0 /\ calls' = 0 /\ outcomes' = <<>> /\ sleeps' = <<>>)]_vars

\* the LangChain variant gives up after a quota error on each of its 4 attempts
C22_Witness ==
    /\ service = "langchain" /\ pc = "returned" /\ result = NoneResult
    /\ max_retries = 3 /\ retry_count = 3 /\ calls = 4
    /\ Len(outcomes) = 4 /\ AllQuotaRaises(outcomes)
    /\ sleeps = <<5, 10, 20>>

PostCallError ==
    /\ service = "gemini" /\ pc = "calling"
    /\ outcomes' = Append(outcomes, Returned)
    /\ CarriesObject(response'.text)
    /\ result'.t # "VideoAnalysis"

\* a dialogue entry of the wrong arity whose text holds the word "quota"
OddEntryQuotesQuota(obj) ==
    /\ HasOddEntry(obj)
    /\ \E p \in DOMAIN DialogLines(obj) :
           \E q \in DOMAIN DialogLines(obj)[p].v :
               DialogLines(obj)[p].v[q] = Str(<<"quota">>)

\* C24: in GeminiService.analyze_video an exception raised after the remote
\* call has returned, other than a JSON decode error, goes through the message
\* classifier of remote-call errors: if its message contains "quota" or "rate
\* limit" and retries remain the client sleeps and retries, otherwise it returns
\* None. A validation error quotes the offending value, so a rejected dialogue
\* entry holding the word "quota" is backed off from although no call failed.
C24_PostCallClassified ==
    /\ [][PostCallError =>
             IF QuotaMsg(error_str') /\ retry_count < max_retries
             THEN /\ sleeps' = Append(sleeps, 5 * (2 ^ retry_count))
                  /\ retry_count' = retry_count + 1
                  /\ pc' = "loop"
             ELSE /\ pc' = "returned" /\ result' = NoneResult
                  /\ sleeps' = sleeps /\ retry_count' = retry_count]_vars
    /\ [][(PostCallError /\ OddEntryQuotesQuota(response'.obj)) =>
             (QuotaMsg(error_str') /\ (max_retries >= 1 => sleeps' = <<5>>))]_vars

C24_Witness ==
    /\ service = "gemini" /\ pc = "loop"
    /\ outcomes = <<Returned>> /\ sleeps = <<5>> /\ retry_count = 1
    /\ OddEntryQuotesQuota(response.obj)

SizeMsg(m) == "too large" \in m \/ "size limit" \in m

\* a step in which the remote call raised
CallRaised ==
    /\ pc = "calling"
    /\ Len(outcomes') = Len(outcomes) + 1
    /\ outcomes'[Len(outcomes')].kind = "raise"

\* C25: classification gives quota precedence: an error whose message holds
\* "quota" or "rate limit" is treated as a quota error (sleep and retry while
\* attempts remain, else give up as quota) even when the message also holds
\* "too large" or "size limit"; the payload-too-large branch is taken only when
\* neither quota marker is present.
C25_QuotaPrecedence ==
    [][CallRaised =>
          LET m == outcomes'[Len(outcomes')].msg
          IN  /\ QuotaMsg(m) =>
                    IF retry_count < max_retries
                    THEN /\ sleeps' = Append(sleeps, 5 * (2 ^ retry_count))
                         /\ retry_count' = retry_count + 1
                         /\ pc' = "loop"
                    ELSE /\ pc' = "returned" /\ result' = NoneResult
                         /\ cause' = "QuotaExhausted" /\ sleeps' = sleeps
              /\ cause' = "PayloadTooLarge" <=> (SizeMsg(m) /\ ~QuotaMsg(m))
              /\ ~QuotaMsg(m) =>
                    (pc' = "returned" /\ result' = NoneResult /\ sleeps' = sleeps)]_vars

C25_Witness ==
    /\ pc = "loop" /\ sleeps = <<5>> /\ retry_count = 1
    /\ outcomes = <<Raised({"quota", "too large"})>>
    /\ error_str = {"quota", "too large"}

\* the required fields that are not strings, and those that are
ShapedNames == {"acciones", "dialogo", "musica"}
StringNames == RequiredNames \ ShapedNames
MissingNames(obj) == {f \in RequiredNames : AbsentAfterAliasing(obj, f)}

\* the well-formed object with some of its keys left out and nothing else changed
BaseWithout(obj) ==
    /\ DOMAIN obj \subseteq DOMAIN BaseObject
    /\ \A k \in DOMAIN obj : obj[k] = BaseObject[k]

\* C26: a parsed object lacking acciones, dialogo or musica has the field
\* filled with the string 'No especificado', which validation rejects, so no
\* analysis result comes out; a response that lacks only string fields (and is
\* well-formed otherwise) does yield a result, with the placeholder in them.
C26_ShapedPlaceholderRejected ==
    /\ (Repaired /\ MissingNames(response.obj) \cap ShapedNames # {})
          => /\ result.t # "VideoAnalysis"
             /\ \A f \in MissingNames(response.obj) \cap ShapedNames :
                    json_response[f] = NoEspecificado
             /\ RepairCompleted => cause = "SchemaViolation" \/ QuotaMsg(error_str)
    /\ (Repaired /\ BaseWithout(response.obj)
           /\ MissingNames(response.obj) \subseteq StringNames)
          => /\ result.t = "VideoAnalysis"
             /\ \A f \in MissingNames(response.obj) : result.v[f] = NoEspecificado

C26_Witness ==
    /\ Repaired /\ BaseWithout(response.obj)
    /\ MissingNames(response.obj) = {"musica"}
    /\ json_response["musica"] = NoEspecificado
    /\ result = NoneResult /\ cause = "SchemaViolation"

C26_WitnessStrings ==
    /\ Repaired /\ BaseWithout(response.obj)
    /\ MissingNames(response.obj) = {"descripcion_original", "caption_video"}
    /\ result.t = "VideoAnalysis"
    /\ result.v["caption_video"] = NoEspecificado

\* C27: repair never changes a hashtags key that is present in the parsed
\* object: whatever its value, inference is skipped (so nothing is asked of the
\* caption) and the value handed to validation is the one the model returned;
\* the default list is assigned only when the key is absent.
C27_HashtagsKept ==
    /\ (Repaired /\ "hashtags" \in DOMAIN response.obj)
          => /\ RepairCompleted /\ cause # "RepairError"
             /\ json_response["hashtags"] = response.obj["hashtags"]
             /\ result.t = "VideoAnalysis" => result.v["hashtags"] = response.obj["hashtags"]
    /\ (RepairCompleted /\ json_response["hashtags"] = DefaultHashtags)
          => "hashtags" \notin DOMAIN response.obj

C27_Witness ==
    /\ Repaired /\ "hashtags" \in DOMAIN response.obj
    /\ response.obj["hashtags"] = List(<<>>)
    /\ CaptionTokens(response.obj) # <<>>
    /\ json_response["hashtags"] = List(<<>>)
    /\ result.t = "VideoAnalysis" /\ result.v["hashtags"] = List(<<>>)

C27_WitnessNull ==
    /\ Repaired /\ "hashtags" \in DOMAIN response.obj
    /\ response.obj["hashtags"] = Null
    /\ "caption_video" \in DOMAIN response.obj
    /\ response.obj["caption_video"].t # "str"
    /\ json_response["hashtags"] = Null /\ cause = "SchemaViolation"

\* the object as the inference step finds it (aliases applied, sweep done)
AtInference == Swept(response.obj)

SweptNames == {required_fields[i] : i \in DOMAIN required_fields}

\* C28: at the hashtag-inference step the object always contains caption_video,
\* and the sweep never assigns hashtags (the key is there exactly when the model
\* returned it, with the value returned): the default list can only come from
\* the inference step finding no "#" token in a string caption, and a repair
\* that ran to its end leaves the hashtags key present.
C28_InferenceSeesCaption ==
    Repaired =>
        /\ "caption_video" \in DOMAIN AtInference
        /\ "hashtags" \notin SweptNames
        /\ "hashtags" \in DOMAIN AtInference <=> "hashtags" \in DOMAIN response.obj
        /\ "hashtags" \in DOMAIN response.obj
               => AtInference["hashtags"] = response.obj["hashtags"]
        /\ ("hashtags" \notin DOMAIN response.obj /\ cause # "RepairError")
               => /\ "hashtags" \in DOMAIN json_response
                  /\ AtInference["caption_video"].t = "str"
                  /\ json_response["hashtags"] =
                         IF HashTokens(AtInference["caption_video"].v) # <<>>
                         THEN List(HashTokens(AtInference["caption_video"].v))
                         ELSE DefaultHashtags
        /\ cause # "RepairError" => "hashtags" \in DOMAIN json_response

C28_Witness ==
    /\ Repaired
    /\ AbsentAfterAliasing(response.obj, "caption_video")
    /\ "hashtags" \notin DOMAIN response.obj
    /\ "hashtags" \notin DOMAIN AtInference
    /\ json_response["caption_video"] = NoEspecificado
    /\ json_response["hashtags"] = DefaultHashtags
    /\ result.t = "VideoAnalysis"

\* the date directory of a run is one of those the abstract runs leave
RunLeavesContents ==
    /\ ctl = "saving" => files \in RunContents
    /\ ctl = "aborted" => files \in AbortContents

\* a directory that has no sub-directory, or no analysis file in any of them
NothingToReport(dir) == FileDirs(dir) = {} \/ \A d \in FileDirs(dir) : ~HasAnalysis(dir, d)

\* C29: ExcelService deletes entries of a date directory only after it wrote
\* that directory's Excel file, the cleanup leaves nothing but the Excel file,
\* a date directory with no sub-directory or no analysis file is left as it
\* was, and an Excel file that a date directory already holds (the product of
\* an earlier run) is neither deleted nor written again.
C29_EarlierExcelKept ==
    \A e \in xl_log :
        /\ e.after # e.before => e.wrote
        /\ e.wrote => e.after = {ExcelFile}
        /\ NothingToReport(e.before) => e.after = e.before /\ ~e.wrote
        /\ ExcelFile \in e.before => ExcelFile \in e.after /\ ~e.wrote

\* the clauses of C29 that hold of every call
C29_DeletesAfterWrite ==
    \A e \in xl_log :
        /\ e.after # e.before => e.wrote /\ ExcelFile \in e.after
        /\ NothingToReport(e.before) => e.after = e.before /\ ~e.wrote
        /\ e.after \subseteq e.before \cup {ExcelFile}

\* a later run writes again the Excel file an earlier run produced, and the
\* rows it writes have lost the links' URLs
C29_Overwritten ==
    \E e1, e2 \in xl_log :
        /\ e1.run < e2.run /\ e1.date = e2.date
        /\ e1.wrote /\ e2.wrote
        /\ ExcelFile \in e2.before
        /\ e1.rows # e2.rows

C30_WitnessPlain ==
    /\ service = "langchain" /\ pc = "returned"
    /\ outcomes = <<Returned>> /\ error_str = {}
    /\ result = NoneResult /\ cause = "SchemaViolation"

====
